---- MODULE Spec2Model ----
(***************************************************************************)
(* Branch-and-bound solver of navigation/src/path_finder.rs (find, Node)   *)
(* and its caller navigation/src/lib.rs (run).                             *)
(*                                                                         *)
(* Costs are exact integers (the regression fixtures in thousandths);      *)
(* f64::INFINITY is the sentinel Inf.  The code never does arithmetic on   *)
(* an infinite value (every subtraction and addition is guarded by a       *)
(* comparison with INFINITY), so the sentinel needs no arithmetic.         *)
(* Vertices, rows and columns are 0-based as in the source.                *)
(***************************************************************************)
EXTENDS Integers, Sequences, FiniteSets, TLC

VARIABLES
    cost,           \* find: the matrix it is called with
    queue,          \* find: the frontier
    pc,             \* find: "idle", "start", "loop", "done" or "panic"
    result,         \* find: Pending, None or Some(cost, path)
    config,         \* run: its Config
    cost_matrices,  \* run: CostMatrices::generate's four matrices
    run_pc,         \* run: "none" (find called on its own), "params",
                    \*      "select", "find", "output", "done" or "panic"
    run_result,     \* run: Pending, Ok or Err(..)
    output          \* run: what it has created and written

find_vars == <<cost, queue, pc, result>>
run_vars == <<config, cost_matrices, run_pc, run_result, output>>
vars == <<cost, queue, pc, result, config, cost_matrices, run_pc, run_result, output>>

\* f64::INFINITY: distinct from every real cost (costs are >= 0).
Inf == 0 - 1

(***************************************************************************)
(* Bounds of the checked inputs.                                           *)
(***************************************************************************)
\* Largest finite entry of an enumerated matrix.
MaxCost == 2
\* Largest matrix size of the sparse family (PatternMatrices).
MaxN == 4
\* Largest number of infinite off-diagonal entries in the sparse family.
MaxInf == 2
\* Sizes whose matrices are enumerated entry by entry.
FullSizes == {1, 2, 3}

Vertices(n) == 0 .. (n - 1)

\* cost.nrows()
nrows(m) == Cardinality(DOMAIN m)

(***************************************************************************)
(* Well-formed cost matrices: square, infinite diagonal, every other entry *)
(* a value >= 0 or infinity.  A matrix is a function row -> column ->      *)
(* value, indexed [from][to].                                              *)
(***************************************************************************)
Costs == (0 .. MaxCost) \cup {Inf}

\* Every well-formed n x n matrix with entries in Costs.
FullMatrices(n) ==
    { m \in [Vertices(n) -> [Vertices(n) -> Costs]] :
        \A i \in Vertices(n) : m[i][i] = Inf }

\* A fixed asymmetric weight for the edge (i, j) of the sparse family.
PatternCost(i, j) == (i * i + 2 * j + i * j) % (MaxCost + 1)

OffDiagonal(n) == { e \in Vertices(n) \X Vertices(n) : e[1] # e[2] }

\* The n x n matrices whose off-diagonal entries are the pattern weights,
\* except for at most MaxInf of them, which are infinite.
PatternMatrices(n) ==
    { [i \in Vertices(n) |-> [j \in Vertices(n) |->
          IF i = j \/ <<i, j>> \in holes THEN Inf ELSE PatternCost(i, j)]] :
      holes \in { h \in SUBSET OffDiagonal(n) : Cardinality(h) <= MaxInf } }

\* Row-major 6 x 6 matrix from the 36 values of a test fixture
\* (DMatrix::from_vec is column-major, the fixture transposes it).
FromRows(v) == [i \in Vertices(6) |-> [j \in Vertices(6) |-> v[6 * i + j + 1]]]

\* tests::find_test, energy_cost, in thousandths.
EnergyCost == FromRows(<<
    Inf,   94793, 22634, 125215, 20567, 75933,
    38706, Inf,   41894, 32732,  42790, 27856,
    20391, 95737, Inf,   105813, 10618, 71252,
    59780, 23384, 42622, Inf,    43402, 29595,
    17950, 96260, 10244, 106220, Inf,   60634,
    38542, 46552, 36104, 57639,  25860, Inf >>)

\* tests::find_test, time_cost, in thousandths.
TimeCost == FromRows(<<
    Inf,    96774, 39395,  112903, 33951,  64516,
    100000, Inf,   96000,  37498,  95333,  36098,
    39395,  92903, Inf,    109032, 20646,  60645,
    116667, 37498, 112667, Inf,    112000, 50000,
    33951,  92258, 20646,  108387, Inf,    60000,
    66667,  36098, 62667,  48387,  62000,  Inf >>)

\* tests::find_test, capacity_cost, in thousandths.
CapacityCost == FromRows(<<
    Inf,  1155, 276, 1526, 251, 925,
    472,  Inf,  510, 399,  521, 339,
    248,  1166, Inf, 1289, 129, 868,
    728,  285,  519, Inf,  529, 361,
    219,  1173, 125, 1294, Inf, 739,
    470,  567,  440, 702,  315, Inf >>)

Fixtures == {EnergyCost, TimeCost, CapacityCost}

\* The matrices find is checked on.
Matrices ==
    UNION ({ FullMatrices(n) : n \in FullSizes }
           \cup { PatternMatrices(n) : n \in (1 .. MaxN) \ FullSizes })
    \cup Fixtures

(***************************************************************************)
(* f64 helpers.                                                            *)
(***************************************************************************)
\* Mutant of MinOf: the largest finite component is taken.
MinOf_Max(values) ==
    IF \A v \in values : v = Inf
    THEN Inf
    ELSE CHOOSE v \in values :
            v # Inf /\ \A w \in values : w = Inf \/ v >= w

\* Matrix::min() of a row or column: the smallest component, infinity
\* being larger than every finite value.
MinOf(values) ==
    IF \A v \in values : v = Inf
    THEN Inf
    ELSE CHOOSE v \in values :
            v # Inf /\ \A w \in values : w = Inf \/ v <= w

\* Mutant of subtract: the minimum is found but never subtracted.
subtract_Noop(f, min) == f

\* The closure `subtract` of calculate_expected_cost.
subtract(f, min) == IF f # Inf /\ min # Inf THEN f - min ELSE f

\* Mutant of ZeroIfInf: an infinite minimum is added as it is.
ZeroIfInf_Keep(v) == v

\* The fold's `if row == f64::INFINITY { 0.0 } else { row }`.
ZeroIfInf(v) == IF v = Inf THEN 0 ELSE v

RECURSIVE SumOver(_, _)
SumOver(f, S) ==
    IF S = {} THEN 0
    ELSE LET x == CHOOSE y \in S : TRUE IN f[x] + SumOver(f, S \ {x})

(***************************************************************************)
(* Node::calculate_expected_cost: reduces the matrix in place and returns  *)
(* the total of the reductions.                                            *)
(***************************************************************************)
calculate_expected_cost(reduced_matrix) ==
    LET V == DOMAIN reduced_matrix
        row_min_elems == [i \in V |-> MinOf({reduced_matrix[i][j] : j \in V})]
        by_rows == [i \in V |-> [j \in V |->
                       subtract(reduced_matrix[i][j], row_min_elems[i])]]
        col_min_elems == [j \in V |-> MinOf({by_rows[i][j] : i \in V})]
        by_cols == [i \in V |-> [j \in V |->
                       subtract(by_rows[i][j], col_min_elems[j])]]
    IN  [ matrix |-> by_cols,
          cost   |-> SumOver([k \in V |-> ZeroIfInf(row_min_elems[k])
                                         + ZeroIfInf(col_min_elems[k])], V) ]

\* DMatrix::fill_row(i, INFINITY)
fill_row(m, i) == [m EXCEPT ![i] = [j \in DOMAIN m |-> Inf]]

\* DMatrix::fill_column(j, INFINITY)
fill_column(m, j) == [i \in DOMAIN m |-> [m[i] EXCEPT ![j] = Inf]]

\* The indexing of Node::new panics when a row or column is out of range.
NodeNewPanics(reduced_matrix, level, i, j) ==
    \/ j \notin DOMAIN reduced_matrix
    \/ 0 \notin DOMAIN reduced_matrix
    \/ level # 0 /\ i \notin DOMAIN reduced_matrix

\* Mutant of Masked: column j is not filled, so j can be entered again.
Masked_NoColumnFill(reduced_matrix, level, i, j) ==
    LET filled == IF level # 0 THEN fill_row(reduced_matrix, i) ELSE reduced_matrix
    IN  [filled EXCEPT ![j][0] = Inf]

\* Mutant of Masked: the row of the vertex entered is filled instead of the
\* row of the vertex left.
Masked_SwappedRow(reduced_matrix, level, i, j) ==
    LET filled == IF level # 0
                  THEN fill_column(fill_row(reduced_matrix, j), j)
                  ELSE reduced_matrix
    IN  [filled EXCEPT ![j][0] = Inf]

\* Mutant of Masked: entry (j, 0) is not set to infinity.
Masked_NoOriginMask(reduced_matrix, level, i, j) ==
    IF level # 0
    THEN fill_column(fill_row(reduced_matrix, i), j)
    ELSE reduced_matrix

\* The matrix of Node::new before its reduction: row i and column j are
\* filled with infinity (not for the root), then entry (j, 0).
Masked(reduced_matrix, level, i, j) ==
    LET filled == IF level # 0
                  THEN fill_column(fill_row(reduced_matrix, i), j)
                  ELSE reduced_matrix
    IN  [filled EXCEPT ![j][0] = Inf]

\* Node::new
NodeNew(reduced_matrix, level, i, j, path) ==
    LET reduction == calculate_expected_cost(Masked(reduced_matrix, level, i, j))
    IN  [ path           |-> IF level # 0 THEN Append(path, <<i, j>>) ELSE path,
          reduced_matrix |-> reduction.matrix,
          cost           |-> reduction.cost,
          vertex         |-> j,
          level          |-> level ]

(***************************************************************************)
(* find.  The frontier is a MinMaxHeap ordered by Node::cost alone; which  *)
(* of several nodes of equal cost pop_min yields depends on the heap's     *)
(* layout, so it is any of them.  Nodes of one search differ in their path *)
(* (or are the root), so the heap is a set.                                *)
(***************************************************************************)
\* Mutant of MinNodes: pop_max is called instead of pop_min.
MinNodes_Max(q) == { node \in q : \A other \in q : node.cost >= other.cost }

\* The nodes pop_min may yield.
MinNodes(q) == { node \in q : \A other \in q : node.cost <= other.cost }

\* Mutant of PopMin: the node is peeked at and stays in the heap.
PopMin_Peek(q, min) == q

\* The heap after pop_min has removed `min`.
PopMin(q, min) == q \ {min}

\* `min.level == n - 1`
AllVisited(min, n) == min.level = n - 1

\* Mutant of ChildColumns: the test of col_val against infinity is left out.
ChildColumns_All(min) == DOMAIN min.reduced_matrix[min.vertex]

\* The columns j of row i the loop of find makes a child for.
ChildColumns(min) ==
    { j \in DOMAIN min.reduced_matrix[min.vertex] :
        min.reduced_matrix[min.vertex][j] # Inf }

\* Mutant of Child: the parent's bound is left out of `child.cost += ..`.
Child_NoParentCost(min, j) ==
    LET child == NodeNew(min.reduced_matrix, min.level + 1, min.vertex, j, min.path)
    IN  [child EXCEPT !.cost = @ + min.reduced_matrix[min.vertex][j]]

\* One child of find's inner loop: Node::new and `child.cost += min_cost + col_val`.
Child(min, j) ==
    LET child == NodeNew(min.reduced_matrix, min.level + 1, min.vertex, j, min.path)
    IN  [child EXCEPT !.cost = @ + (min.cost + min.reduced_matrix[min.vertex][j])]

\* The heap after `min` was popped and its children pushed.
Expanded(q, min) == PopMin(q, min) \cup { Child(min, j) : j \in ChildColumns(min) }

Pending == [kind |-> "Pending"]
None == [kind |-> "None"]
Some(c, p) == [kind |-> "Some", cost |-> c, path |-> p]

\* The state of run when find is called on its own, as the tests do.
NoRun ==
    /\ config = <<>>
    /\ cost_matrices = <<>>
    /\ run_pc = "none"
    /\ run_result = Pending
    /\ output = <<>>

\* find is called with a well-formed matrix.
Init ==
    /\ cost \in Matrices
    /\ queue = {}
    /\ pc = "start"
    /\ result = Pending
    /\ NoRun

\* find, lines 176-182: the root is built and pushed.
Start ==
    /\ pc = "start"
    /\ IF NodeNewPanics(cost, 0, 0, 0)
       THEN /\ pc' = "panic"
            /\ UNCHANGED queue
       ELSE /\ queue' = {NodeNew(cost, 0, 0, 0, <<>>)}
            /\ pc' = "loop"
    /\ UNCHANGED <<cost, result>>
    /\ UNCHANGED run_vars

\* One iteration of the loop that ends in `return Some(..)`.
ReturnResult ==
    /\ pc = "loop"
    /\ \E min \in MinNodes(queue) :
        /\ AllVisited(min, nrows(cost))
        /\ result' = Some(min.cost, Append(min.path, <<min.vertex, 0>>))
        /\ queue' = PopMin(queue, min)
    /\ pc' = "done"
    /\ UNCHANGED cost
    /\ UNCHANGED run_vars

\* One iteration of the loop that expands the popped node.
Expand ==
    /\ pc = "loop"
    /\ \E min \in MinNodes(queue) :
        /\ ~AllVisited(min, nrows(cost))
        /\ IF min.vertex \notin DOMAIN min.reduced_matrix
              \/ \E j \in ChildColumns(min) :
                    NodeNewPanics(min.reduced_matrix, min.level + 1, min.vertex, j)
           THEN /\ pc' = "panic"
                /\ queue' = PopMin(queue, min)
           ELSE /\ queue' = Expanded(queue, min)
                /\ pc' = "loop"
    /\ UNCHANGED <<cost, result>>
    /\ UNCHANGED run_vars

\* pop_min yields nothing: the loop ends and find returns None.
ReturnNone ==
    /\ pc = "loop"
    /\ queue = {}
    /\ result' = None
    /\ pc' = "done"
    /\ UNCHANGED <<cost, queue>>
    /\ UNCHANGED run_vars

Next == Start \/ Expand \/ ReturnResult \/ ReturnNone

Spec == Init /\ [][Next]_vars

\* The f64 sum of m[from][to] over the edges of a path: infinite as soon
\* as one term is.
PathSum(m, path) ==
    IF \E k \in 1 .. Len(path) : m[path[k][1]][path[k][2]] = Inf
    THEN Inf
    ELSE SumOver([k \in 1 .. Len(path) |-> m[path[k][1]][path[k][2]]], 1 .. Len(path))

(***************************************************************************)
(* run (lib.rs): reads the parameters, generates the four cost matrices,   *)
(* selects one by config.optimize, calls find, and formats the result to   *)
(* the file or to stdout.                                                  *)
(***************************************************************************)
Optimize == {"Intuitive", "Time", "Battery", "Energy"}

\* Config: out_filename is Some(..) or None, out_as_json, optimize.
Configs == [out_filename : {"Some", "None"}, out_as_json : BOOLEAN, optimize : Optimize]

\* Matrix sizes (numbers of coordinates) of the checked runs.
RunSizes == {2}

\* What CostMatrices::generate may return: four well-formed matrices of one size.
GeneratedMatrices ==
    UNION { [distance : PatternMatrices(n), time : PatternMatrices(n),
             capacity : PatternMatrices(n), energy : PatternMatrices(n)] : n \in RunSizes }

Ok == [kind |-> "Ok"]
Err(e) == [kind |-> "Err", error |-> e]

\* Nothing created, nothing written.
NoOutput == [file_created |-> FALSE, written |-> "none", data |-> <<>>]

\* `match config.optimize { .. }`
SelectMatrix(c, ms) ==
    CASE c.optimize = "Intuitive" -> ms.distance
      [] c.optimize = "Time"      -> ms.time
      [] c.optimize = "Battery"   -> ms.capacity
      [] c.optimize = "Energy"    -> ms.energy

\* Mutant of ok_or: the absent result is passed on as if it were one.
ok_or_Always(opt, e) == [kind |-> "Ok", value |-> opt]

\* Option::ok_or
ok_or(opt, e) == IF opt = None THEN Err(e) ELSE [kind |-> "Ok", value |-> opt]

\* The edges run formats and sums over.
get_path(r) == IF r.kind = "Some" THEN r.path ELSE <<>>

\* The fold of run over the returned path: the three sums of OutputData.
OutputData(ms, path) ==
    [ path          |-> path,
      energy_cost   |-> PathSum(ms.energy, path),
      time_cost     |-> PathSum(ms.time, path),
      capacity_cost |-> PathSum(ms.capacity, path) ]

RunInit ==
    /\ config \in Configs
    /\ cost_matrices = <<>>
    /\ run_pc = "params"
    /\ run_result = Pending
    /\ output = NoOutput
    /\ cost = <<>>
    /\ queue = {}
    /\ pc = "idle"
    /\ result = Pending

\* Params::from_file(..)? and CostMatrices::generate.
RunGenerate ==
    /\ run_pc = "params"
    /\ \E parsed \in BOOLEAN :
        IF parsed
        THEN /\ cost_matrices' \in GeneratedMatrices
             /\ run_pc' = "select"
             /\ UNCHANGED run_result
        ELSE /\ run_result' = Err("ParamsParseError")
             /\ run_pc' = "done"
             /\ UNCHANGED cost_matrices
    /\ UNCHANGED <<config, output>>
    /\ UNCHANGED find_vars

\* The matrix is selected and find is called with it.
RunSelect ==
    /\ run_pc = "select"
    /\ cost' = SelectMatrix(config, cost_matrices)
    /\ pc' = "start"
    /\ run_pc' = "find"
    /\ UNCHANGED <<queue, result>>
    /\ UNCHANGED <<config, cost_matrices, run_result, output>>

\* `path_finder::find(cost_matrix).ok_or(Error::UnableToFindPath)?`
RunFindReturned ==
    /\ run_pc = "find"
    /\ pc \in {"done", "panic"}
    /\ IF pc = "panic"
       THEN /\ run_pc' = "panic"
            /\ UNCHANGED run_result
       ELSE LET found == ok_or(result, "UnableToFindPath")
            IN  IF found.kind = "Err"
                THEN /\ run_result' = found
                     /\ run_pc' = "done"
                ELSE /\ run_pc' = "output"
                     /\ UNCHANGED run_result
    /\ UNCHANGED <<config, cost_matrices, output>>
    /\ UNCHANGED find_vars

\* The output data is built, the file (if any) created and the data written
\* by the JSON or the text formatter; creating and writing can fail.
RunOutput ==
    /\ run_pc = "output"
    /\ \E created \in BOOLEAN, written \in BOOLEAN :
        LET data == OutputData(cost_matrices, get_path(result))
            to_file == config.out_filename = "Some"
        IN  IF to_file /\ ~created
            THEN /\ run_result' = Err("IO")
                 /\ UNCHANGED output
            ELSE /\ output' = [ file_created |-> to_file,
                                written |-> IF ~written THEN "failed"
                                            ELSE IF config.out_as_json THEN "json"
                                            ELSE "text",
                                data |-> data ]
                 /\ run_result' = IF written THEN Ok ELSE Err("Format")
    /\ run_pc' = "done"
    /\ UNCHANGED <<config, cost_matrices>>
    /\ UNCHANGED find_vars

NextRun ==
    \/ RunGenerate \/ RunSelect \/ RunFindReturned \/ RunOutput
    \/ Start \/ Expand \/ ReturnResult \/ ReturnNone

SpecRun == RunInit /\ [][NextRun]_vars

(***************************************************************************)
(* Tours of the input matrix, for stating what find is to return.          *)
(***************************************************************************)
RECURSIVE Orders(_, _)
Orders(prefix, rest) ==
    IF rest = {} THEN {prefix}
    ELSE UNION { Orders(Append(prefix, v), rest \ {v}) : v \in rest }

\* The edges of the closed tour that visits the vertices in the order `o`.
TourEdges(o) == [k \in 1 .. Len(o) |-> <<o[k], IF k < Len(o) THEN o[k + 1] ELSE 0>>]

\* Every Hamiltonian cycle through vertex 0, as its sequence of edges.
Tours(n) == { TourEdges(o) : o \in Orders(<<0>>, 1 .. (n - 1)) }

\* The total input-matrix cost of a path.
PathCost(m, path) == PathSum(m, path)

MinTourCost(m) == MinOf({ PathCost(m, t) : t \in Tours(nrows(m)) })

HasFiniteTour(m) == MinTourCost(m) # Inf

\* Some vertex has no finite outgoing edge or no finite incoming edge.
HasIsolatedVertex(m) ==
    \E v \in DOMAIN m :
        \/ \A j \in DOMAIN m : m[v][j] = Inf
        \/ \A i \in DOMAIN m : m[i][v] = Inf

Returned == pc = "done" /\ result.kind = "Some"

\* C1: for N >= 2, the cost find returns is the minimum total input-matrix
\* cost over all Hamiltonian cycles through vertex 0.
C1_ReturnedCostIsMinimum ==
    (Returned /\ nrows(cost) >= 2) => result.cost = MinTourCost(cost)

\* N edges that form one cycle through all vertices, from and to vertex 0.
IsPermutationCycle(path, n) ==
    /\ Len(path) = n
    /\ path[1][1] = 0
    /\ \A k \in 1 .. (n - 1) : path[k][2] = path[k + 1][1]
    /\ path[n][2] = 0
    /\ \A v \in Vertices(n) :
        /\ Cardinality({ k \in 1 .. n : path[k][1] = v }) = 1
        /\ Cardinality({ k \in 1 .. n : path[k][2] = v }) = 1

\* C2: the returned path has exactly N edges forming a permutation cycle
\* that starts and ends at vertex 0.
C2_PathIsPermutationCycle ==
    Returned => IsPermutationCycle(result.path, nrows(cost))

C2_Witness ==
    /\ Returned
    /\ nrows(cost) = 4
    /\ result.path[2] # <<1, 2>>

\* C3: for N >= 2, the returned cost is the sum of the input-matrix entries
\* over the N edges of the returned path, the closing edge included.
C3_CostIsSumOfPathEdges ==
    (Returned /\ nrows(cost) >= 2) => result.cost = PathCost(cost, result.path)

\* C4: for N >= 2, a matrix with a vertex that has no finite outgoing or no
\* finite incoming edge makes find return None.
C4_IsolatedVertexGivesNone ==
    (pc = "done" /\ nrows(cost) >= 2 /\ HasIsolatedVertex(cost)) => result = None

\* C5: on a matrix that has a Hamiltonian cycle of finite cost the frontier
\* never empties, and find returns a result.
C5_FeasibleGivesResult ==
    HasFiniteTour(cost) =>
        /\ pc = "loop" => queue # {}
        /\ pc = "done" => result.kind = "Some"

C5_Witness ==
    /\ Returned
    /\ nrows(cost) >= 3
    /\ HasFiniteTour(cost)
    /\ \E t \in Tours(nrows(cost)) : PathCost(cost, t) = Inf

\* An upper bound of the number of loop iterations a node of level `level`
\* can still cause: itself and, below level n-1, at most n-1-level children.
RECURSIVE Weight(_, _)
Weight(n, level) ==
    IF level >= n - 1 THEN 1 ELSE 1 + (n - 1 - level) * Weight(n, level + 1)

\* The sum of Weight over the nodes of the frontier q, level by level.
RECURSIVE FrontierWeight(_, _, _)
FrontierWeight(q, n, level) ==
    IF level < 0 THEN 0
    ELSE Weight(n, level) * Cardinality({ node \in q : node.level = level })
         + FrontierWeight(q, n, level - 1)

\* A natural number that bounds the steps find has left.
Variant ==
    CASE pc = "start" -> 2 + Weight(nrows(cost), 0)
      [] pc = "loop"  -> 1 + FrontierWeight(queue, nrows(cost), nrows(cost) - 1)
      [] OTHER        -> 0

\* Some action of find is enabled: the root can be built, or the loop can
\* pop a node or find the frontier empty.
CanStep ==
    \/ pc = "start"
    \/ pc = "loop" /\ (queue = {} \/ MinNodes(queue) # {})

\* C6: for N >= 1 the search never panics and terminates: until find has
\* returned a step is possible, every step lowers the bound Variant on the
\* steps left, and find ends either with a result taken from a node of level
\* N-1 or with None on an empty frontier.
C6_TerminatesWithoutPanic ==
    /\ [](/\ pc # "panic"
          /\ pc = "done" \/ CanStep
          /\ \A node \in queue : node.level <= nrows(cost) - 1
          /\ pc = "done" =>
                \/ result.kind = "Some" /\ Len(result.path) = nrows(cost)
                \/ result = None /\ queue = {})
    /\ [][Variant' < Variant /\ Variant' >= 0]_vars

C6_Witness ==
    /\ pc = "done"
    /\ result = None
    /\ queue = {}
    /\ nrows(cost) = 3
    /\ cost[0][1] # Inf
    /\ cost[2][1] # Inf

\* The outcome of the search from the frontier q under one fixed rule for
\* breaking ties between nodes of equal cost.
RECURSIVE FindFrom(_, _)
FindFrom(q, n) ==
    IF q = {} THEN None
    ELSE LET min == CHOOSE node \in MinNodes(q) : TRUE
         IN  IF AllVisited(min, n)
             THEN Some(min.cost, Append(min.path, <<min.vertex, 0>>))
             ELSE FindFrom(Expanded(q, min), n)

\* The run of find on matrix m under the fixed rule.
ReferenceRun(m) == FindFrom({NodeNew(m, 0, 0, 0, <<>>)}, nrows(m))

\* Every run of find on a matrix, whatever way ties between nodes of equal
\* bound are broken, has the outcome kind and the cost of the run under one
\* fixed rule, so any two runs agree on both.
SameKindAndCost ==
    pc = "done" =>
        LET ref == ReferenceRun(cost)
        IN  /\ result.kind = ref.kind
            /\ result.kind = "Some" => result.cost = ref.cost

\* C7: two runs of find on the same matrix (here any run and the run under
\* the fixed rule) have the same outcome kind and the same cost, and their
\* paths differ only between tours of equal total input-matrix cost.
C7_RunsAgree ==
    pc = "done" =>
        LET ref == ReferenceRun(cost)
        IN  /\ result.kind = ref.kind
            /\ result.kind = "Some" =>
                /\ result.cost = ref.cost
                /\ result.path # ref.path =>
                      PathCost(cost, result.path) = PathCost(cost, ref.path)

ForwardTour == << <<0, 2>>, <<2, 4>>, <<4, 5>>, <<5, 3>>, <<3, 1>>, <<1, 0>> >>
ReverseTour == << <<0, 1>>, <<1, 3>>, <<3, 5>>, <<5, 4>>, <<4, 2>>, <<2, 0>> >>

C9_TwoByTwo ==
    (nrows(cost) = 2 /\ cost[0][1] # Inf /\ cost[1][0] # Inf) =>
        LET a == cost[0][1]
            b == cost[1][0]
        IN  /\ \A node \in queue :
                /\ node.level = 0 => node.cost = a + b
                /\ node.level = 1 =>
                    /\ node.path = << <<0, 1>> >>
                    /\ node.cost = a + b
                    /\ \A i, j \in DOMAIN cost : node.reduced_matrix[i][j] = Inf
            /\ pc = "loop" => Cardinality(queue) = 1
            /\ pc = "done" => result = Some(a + b, << <<0, 1>>, <<1, 0>> >>)

C9_Witness ==
    /\ pc = "done"
    /\ nrows(cost) = 2
    /\ cost[0][1] = 1
    /\ cost[1][0] = 2
    /\ result.kind = "Some"

\* C10: when find returns None, run returns Error::UnableToFindPath and has
\* created no file and formatted nothing; when find returns a result, run
\* never reports UnableToFindPath.
C10_NoneGivesUnableToFindPath ==
    /\ result = None => output = NoOutput
    /\ (result = None /\ run_pc = "done") => run_result = Err("UnableToFindPath")
    /\ result.kind = "Some" => run_result # Err("UnableToFindPath")

C10_Witness ==
    /\ run_pc = "done"
    /\ result = None
    /\ config.out_filename = "Some"
    /\ run_result = Err("UnableToFindPath")

(***************************************************************************)
(* The chain of nodes behind a node of the frontier, rebuilt from its path. *)
(***************************************************************************)
\* The root find builds for matrix m.
Root(m) == NodeNew(m, 0, 0, 0, <<>>)

\* The node find builds for the committed path `path`: the root for the
\* empty path, otherwise the child (to the path's last vertex) of the node
\* of the path without its last edge.
RECURSIVE NodeAt(_, _)
NodeAt(m, path) ==
    IF path = <<>> THEN Root(m)
    ELSE Child(NodeAt(m, SubSeq(path, 1, Len(path) - 1)), path[Len(path)][2])

\* A step of the loop that expanded a node: the node it popped ...
Popped == queue \ queue'
\* ... and the children it pushed.
Pushed == queue' \ queue

\* C11: every child pushed by find has a bound >= the bound of the node it
\* was expanded from, which is the node of the child's path without its last
\* edge; so the bound never decreases along the chain from the root to a
\* node, and no node of the frontier has a bound below the root's.
C11_BoundNonDecreasing ==
    /\ [][pc' = "loop" =>
            \A min \in Popped : \A child \in Pushed :
                /\ child.path = Append(min.path, <<min.vertex, child.vertex>>)
                /\ child.level = min.level + 1
                /\ child.cost >= min.cost
         ]_vars
    /\ [](LET root_cost == Root(cost).cost
          IN  \A node \in queue : node.cost >= root_cost)

C11_Witness ==
    /\ pc = "loop"
    /\ nrows(cost) = 4
    /\ \E a, b \in queue :
        /\ a.level = 2
        /\ a.cost = Root(cost).cost
        /\ b.level >= 2
        /\ b.cost > a.cost

\* a <= b for f64 values that may be infinite.
LeqInf(a, b) == b = Inf \/ (a # Inf /\ a <= b)

\* The vertices in the order the committed path `path` visits them.
VisitOrder(path) == <<0>> \o [k \in 1 .. Len(path) |-> path[k][2]]

\* Every Hamiltonian cycle through vertex 0 that begins with `path`.
Completions(path, n) ==
    LET order == VisitOrder(path)
    IN  { TourEdges(o) :
            o \in Orders(order, Vertices(n) \ { order[k] : k \in 1 .. Len(order) }) }

\* The bound of `node` is at most the cost of every cycle that completes its
\* path, and equal to it for a node of level n-1 with a finite closing edge.
Admissible(node, m) ==
    LET n == nrows(m)
    IN  \A t \in Completions(node.path, n) :
            LET tour_cost == PathCost(m, t)
            IN  /\ SubSeq(t, 1, Len(node.path)) = node.path
                /\ LeqInf(node.cost, tour_cost)
                /\ (node.level = n - 1 /\ m[node.vertex][0] # Inf) =>
                      node.cost = tour_cost

\* C12: the bound of every node placed in the frontier is <= the total
\* input-matrix cost of every Hamiltonian cycle through vertex 0 that begins
\* with the node's committed path, and equals that cost for a node of level
\* N-1 whose closing edge is finite.
C12_BoundAdmissible ==
    [][pc' = "loop" => \A node \in Pushed : Admissible(node, cost)]_vars

C12_Witness ==
    /\ pc = "loop"
    /\ nrows(cost) = 4
    /\ \E node \in queue :
        /\ node.level = 3
        /\ cost[node.vertex][0] # Inf
    /\ \E node \in queue :
        /\ node.level = 1
        /\ \E t \in Completions(node.path, 4) :
            /\ PathCost(cost, t) # Inf
            /\ node.cost < PathCost(cost, t)
    /\ \E node \in queue :
        \E t \in Completions(node.path, 4) : PathCost(cost, t) = Inf

\* The matrix Node::new reduces for the child `child` of the node `min`.
MaskedFor(min, child) ==
    Masked(min.reduced_matrix, child.level, min.vertex, child.vertex)

\* Node::new sets entry (j, 0) of every child's matrix to infinity, the
\* child of level N-1 included.
OriginAlwaysMasked ==
    [][pc' = "loop" =>
        \A min \in Popped : \A child \in Pushed :
            MaskedFor(min, child)[child.vertex][0] = Inf]_vars

\* C13: Node::new sets entry (j, 0) of the child's matrix to infinity for
\* every child except the one that makes the closing move of the tour (the
\* child of level N-1), for which the entry is left as it was in the
\* parent's matrix.
C13_ClosingEntryKept ==
    [][pc' = "loop" =>
        \A min \in Popped : \A child \in Pushed :
            LET j == child.vertex
            IN  IF child.level = nrows(cost) - 1
                THEN MaskedFor(min, child)[j][0] = min.reduced_matrix[j][0]
                ELSE MaskedFor(min, child)[j][0] = Inf]_vars

(***************************************************************************)
(* The reference reduction calculate_expected_cost is compared with.       *)
(***************************************************************************)
\* The amount a row or column with the entries `line` (a function on the
\* vertices) is reduced by: its least finite entry, 0 when it has none.
Shift(line) ==
    LET finite == { line[k] : k \in DOMAIN line } \ {Inf}
    IN  IF finite = {} THEN 0
        ELSE CHOOSE v \in finite : \A w \in finite : v <= w

\* The matrix m with every finite entry of row i lowered by by_row[i] and
\* every finite entry of column j by by_col[j].
Lowered(m, by_row, by_col) ==
    [i \in DOMAIN m |-> [j \in DOMAIN m |->
        IF m[i][j] = Inf THEN Inf ELSE m[i][j] - by_row[i] - by_col[j]]]

RECURSIVE SumUpTo(_, _)
SumUpTo(f, k) == IF k < 0 THEN 0 ELSE f[k] + SumUpTo(f, k - 1)

\* Rows first, then the columns of the row-reduced matrix.
ReferenceReduction(m) ==
    LET V == DOMAIN m
        zero == [k \in V |-> 0]
        by_row == [i \in V |-> Shift(m[i])]
        rows_done == Lowered(m, by_row, zero)
        by_col == [j \in V |-> Shift([i \in V |-> rows_done[i][j]])]
    IN  [ matrix |-> Lowered(m, by_row, by_col),
          cost   |-> SumUpTo(by_row, nrows(m) - 1) + SumUpTo(by_col, nrows(m) - 1) ]

\* calculate_expected_cost on the matrix m gives the reference reduction,
\* and its result is reduced.
ReductionAgrees(m) ==
    LET V == DOMAIN m
        reduction == calculate_expected_cost(m)
        out == reduction.matrix
    IN  /\ reduction = ReferenceReduction(m)
        /\ \A i, j \in V :
            /\ out[i][j] = Inf <=> m[i][j] = Inf
            /\ out[i][j] # Inf => out[i][j] >= 0
        /\ \A k \in V :
            /\ (\E j \in V : m[k][j] # Inf) => \E j \in V : out[k][j] = 0
            /\ (\E i \in V : m[i][k] # Inf) => \E i \in V : out[i][k] = 0

\* The matrices Node::new hands to calculate_expected_cost in a step of find.
ReducedInStep ==
    IF pc = "start"
    THEN {Masked(cost, 0, 0, 0)}
    ELSE { MaskedFor(min, child) : min \in Popped, child \in Pushed }

\* C14: on every matrix find reduces, calculate_expected_cost agrees with
\* the reference reduction (row minima subtracted from the finite entries,
\* then the column minima of the row-reduced matrix; a row or column without
\* a finite entry unchanged), infinite entries stay infinite, finite entries
\* of the result are >= 0, every row and column with a finite entry contains
\* a 0, and the cost is the sum of the row and column minima, an infinite
\* minimum counting as 0.
C14_ReductionAgreesWithReference ==
    [][pc' = "loop" => \A m \in ReducedInStep : ReductionAgrees(m)]_vars

C14_Witness ==
    /\ pc = "loop"
    /\ nrows(cost) = 4
    /\ \E j \in DOMAIN cost : Root(cost).reduced_matrix[0][j] # cost[0][j] - Shift(cost[0])
    /\ \E node \in queue :
        /\ node.level = 2
        /\ \E i \in DOMAIN cost : \A j \in DOMAIN cost : node.reduced_matrix[i][j] = Inf
        /\ \E i, j \in DOMAIN cost : node.reduced_matrix[i][j] = 0
        /\ node.cost > Root(cost).cost

\* The reduction cost Node::new computes for the child `child` of `min`.
ChildReductionCost(min, child) == calculate_expected_cost(MaskedFor(min, child)).cost

\* C15: the root's bound is the reduction cost of the input matrix alone;
\* every child's bound is the parent's bound plus entry (i, j) of the
\* parent's matrix plus the reduction cost of the child's masked matrix;
\* and expanding a node pushes exactly one child for each j whose entry in
\* row i of the parent's matrix is finite and none for an infinite entry.
C15_BoundFormulaAndChildren ==
    [][pc' = "loop" =>
        IF pc = "start"
        THEN \E root \in queue' :
                /\ queue' = {root}
                /\ root.level = 0
                /\ root.cost = calculate_expected_cost(Masked(cost, 0, 0, 0)).cost
        ELSE \A min \in Popped :
                LET row == min.reduced_matrix[min.vertex]
                IN  /\ \A child \in Pushed :
                        /\ row[child.vertex] # Inf
                        /\ child.cost = min.cost + row[child.vertex]
                                            + ChildReductionCost(min, child)
                    /\ \A j \in DOMAIN row :
                        Cardinality({ child \in Pushed : child.vertex = j })
                            = IF row[j] # Inf THEN 1 ELSE 0
      ]_vars

\* The node a node of the frontier (not the root) was expanded from.
Parent(node) == NodeAt(cost, SubSeq(node.path, 1, Len(node.path) - 1))

C15_Witness ==
    /\ pc = "loop"
    /\ nrows(cost) = 4
    /\ \E j \in DOMAIN cost \ {0} : cost[0][j] = Inf
    /\ \E a, b \in queue :
        /\ a.level = 2
        /\ Parent(a).reduced_matrix[Parent(a).vertex][a.vertex] > 0
        /\ b.level >= 1
        /\ ChildReductionCost(Parent(b), b) > 0

\* The shape of a node of the search on an n x n matrix.
WellShaped(node, n) ==
    LET path == node.path
        len == Len(path)
    IN  /\ node.level <= n - 1
        /\ len = node.level
        /\ len = 0 => node.vertex = 0
        /\ len > 0 => (path[1][1] = 0 /\ path[len][2] = node.vertex)
        /\ \A k \in 1 .. (len - 1) : path[k][2] = path[k + 1][1]
        /\ \A k \in 1 .. len :
            /\ path[k][1] \in Vertices(n) /\ path[k][2] \in Vertices(n)
            /\ path[k][1] # path[k][2]
            /\ path[k][2] # 0
        /\ \A k, l \in 1 .. len : path[k][2] = path[l][2] => k = l

\* C16: in every reachable state each node of the frontier has level <= N-1
\* and a path of exactly `level` edges that is a chain from vertex 0 to the
\* node's vertex (vertex 0 for the root), every edge with from # to, no
\* vertex entered twice and vertex 0 never entered.
C16_FrontierNodesWellShaped ==
    LET n == nrows(cost)
    IN  \A node \in queue : WellShaped(node, n)

C16_Witness ==
    /\ pc = "loop"
    /\ nrows(cost) = 4
    /\ \A level \in 1 .. 3 : \E node \in queue : node.level = level
    /\ \E node \in queue : node.level = 3 /\ node.path[1][2] = 3

====
